---------------------------- MODULE Spec2Model ----------------------------
(***************************************************************************)
(* Model of the Plugo CSS build script, src/scripts/build.js.              *)
(*                                                                         *)
(* Text is a sequence of tokens.  A token is a string: either a maximal    *)
(* run of the characters [a-zA-Z0-9_-] (a word) or one single other        *)
(* character (".", " ", the line feed, "{", "\\", ...).  The regular       *)
(* expressions of the script only ever test whole words or single          *)
(* characters of the texts modelled here, so each of them is modelled by   *)
(* the scan it performs over the tokens.                                   *)
(*                                                                         *)
(* Decimal numbers are fixed-point integers: an amount of adjustColor is   *)
(* held in thousandths (AmountScale), a length in thousandths of its unit. *)
(***************************************************************************)
EXTENDS Integers, Sequences, FiniteSets, TLC

VARIABLES
    pc,        \* position of build(), or of the call of a pure function
    config,    \* the ThemeConfig build() obtained from loadConfig()
    css,       \* the stylesheet build() generated, as a sequence of items
    cssFile,   \* what plugo.css holds
    minFile,   \* what plugo.min.css holds
    report,    \* the report object of build()
    logged,    \* what build() wrote to the console, in order
    exitCode,  \* <<code>> once the process has exited, <<>> until then
    arg,       \* the argument(s) of the pure function under check
    ret        \* its result

vars == <<pc, config, css, cssFile, minFile, report, logged, exitCode, arg, ret>>

buildVars == <<config, css, cssFile, minFile, report, logged, exitCode>>

NoValue == "none"

\* No config obtained yet, and no report computed yet.
NoConfig == [kind |-> "none"]

NoReport == [kind |-> "none"]

\* The build takes no part in the check of a pure function.
BuildIdle ==
    /\ config = NoConfig
    /\ css = <<>>
    /\ cssFile = NoValue
    /\ minFile = NoValue
    /\ report = NoReport
    /\ logged = <<>>
    /\ exitCode = <<>>

----------------------------------------------------------------------------
(* Helpers on sequences.                                                   *)

Min(a, b) == IF a <= b THEN a ELSE b

Max(a, b) == IF a >= b THEN a ELSE b


\* All sequences over S of length at most n.
SeqsUpTo(S, n) == UNION {[1..k -> S] : k \in 0..n}

\* The concatenation of a sequence of sequences (by halves: shallow recursion).
RECURSIVE FlattenRange(_, _, _)
FlattenRange(ss, lo, hi) ==
    IF lo > hi THEN <<>>
    ELSE IF lo = hi THEN ss[lo]
    ELSE LET mid == (lo + hi) \div 2
         IN  FlattenRange(ss, lo, mid) \o FlattenRange(ss, mid + 1, hi)

Flatten(ss) == FlattenRange(ss, 1, Len(ss))

\* The elements of s that satisfy Test, in order.
SelectIdx(s, Test(_)) ==
    LET idx == {i \in 1..Len(s) : Test(s[i])}
        nth[k \in 0..Cardinality(idx)] ==
            IF k = 0 THEN 0
            ELSE CHOOSE i \in idx : i > nth[k - 1] /\ \A j \in idx : j > nth[k - 1] => i <= j
    IN  [k \in 1..Cardinality(idx) |-> s[nth[k]]]

----------------------------------------------------------------------------
(* adjustColor: src/scripts/build.js lines 8-40.                           *)

LIGHTEN_STRENGTH == 180

DARKEN_STRENGTH == 180

\* Amounts are thousandths: 0.18 is 180.
AmountScale == 1000

HexChars == <<"0", "1", "2", "3", "4", "5", "6", "7",
              "8", "9", "a", "b", "c", "d", "e", "f">>

HexVal(ch) == (CHOOSE i \in 1..16 : HexChars[i] = ch) - 1

\* hex.replace('#', ''): the first '#' is removed.
replaceHash(hex) ==
    IF \E i \in 1..Len(hex) : hex[i] = "#"
    THEN LET i == CHOOSE k \in 1..Len(hex) :
                      hex[k] = "#" /\ \A j \in 1..(k - 1) : hex[j] # "#"
         IN  SubSeq(hex, 1, i - 1) \o SubSeq(hex, i + 1, Len(hex))
    ELSE hex

\* parseInt(normalized, 16) of a string of hex digits.
RECURSIVE parseInt16(_)
parseInt16(s) ==
    IF s = <<>> THEN 0
    ELSE 16 * parseInt16(SubSeq(s, 1, Len(s) - 1)) + HexVal(s[Len(s)])

\* n.toString(16) of a positive integer.
RECURSIVE toString16(_)
toString16(n) ==
    IF n < 16 THEN <<HexChars[n + 1]>>
    ELSE toString16(n \div 16) \o <<HexChars[(n % 16) + 1]>>

\* (n >> k) & 255
ShiftMask(n, k) == (n \div (2 ^ k)) % 256

\* Math.round of x / AmountScale: the nearest integer, a tie going up.
MathRound(x) == (2 * x + AmountScale) \div (2 * AmountScale)

\* A mutant of clampChannel: Math.floor in the place of Math.round.
clampChannelFloor(channel) ==
    Min(255, Max(0, channel \div AmountScale))

\* clampChannel(channel), channel in thousandths.
clampChannel(channel) ==
    Min(255, Max(0, MathRound(channel)))

\* The inner function adjust of adjustColor; amount in thousandths.
adjust(channel, amount) ==
    LET factor == IF amount >= 0 THEN amount ELSE -amount
    IN  IF amount >= 0
        THEN clampChannel(channel * AmountScale + (255 - channel) * factor)
        ELSE clampChannel(channel * (AmountScale - factor))

adjustColor(hex, amount) ==
    LET normalized == replaceHash(hex)
        bigint == parseInt16(normalized)
        r == ShiftMask(bigint, 16)
        g == ShiftMask(bigint, 8)
        b == ShiftMask(bigint, 0)
        newR == adjust(r, amount)
        newG == adjust(g, amount)
        newB == adjust(b, amount)
    IN  <<"#">> \o Tail(toString16((2 ^ 24) + newR * (2 ^ 16) + newG * (2 ^ 8) + newB))

(* The check of adjustColor: the red channel takes every value, the green  *)
(* and blue channels take sample values, the amounts are the five the      *)
(* script uses, the bounds of [-1, 1] and eighths in between.  For all of  *)
(* these the script's double arithmetic gives the value computed here.     *)

ChannelSamples == {<<"0", "0">>, <<"1", "e">>, <<"8", "0">>, <<"f", "f">>}

HexDigitSet == {HexChars[i] : i \in 1..16}

ColorInputs ==
    {<<"#", r1, r2>> \o g \o b :
        r1 \in HexDigitSet, r2 \in HexDigitSet, g \in ChannelSamples, b \in ChannelSamples}

AmountInputs ==
    {LIGHTEN_STRENGTH, -DARKEN_STRENGTH, -((DARKEN_STRENGTH * 12) \div 10),
     (LIGHTEN_STRENGTH * 8) \div 10, -80}
    \cup {k * (AmountScale \div 8) : k \in -8..8}

InitColor ==
    /\ BuildIdle
    /\ pc = "call"
    /\ arg \in {[hex |-> h, amount |-> a] : h \in ColorInputs, a \in AmountInputs}
    /\ ret = NoValue

CallAdjustColor ==
    /\ pc = "call"
    /\ ret' = adjustColor(arg.hex, arg.amount)
    /\ pc' = "return"
    /\ UNCHANGED <<arg, buildVars>>

NextColor == CallAdjustColor

SpecColor == InitColor /\ [][NextColor]_vars

\* The channel (1, 2 or 3) of a '#rrggbb' text, read digit by digit.
ChannelOf(hex, k) == 16 * HexVal(hex[2 * k]) + HexVal(hex[2 * k + 1])

\* v is the integer nearest to x / AmountScale (a tie going up), within 0..255.
IsRounded(v, x) ==
    /\ v \in 0..255
    /\ 2 * AmountScale * v <= 2 * x + AmountScale
    /\ 2 * x + AmountScale < 2 * AmountScale * (v + 1)

\* C8: adjustColor returns '#' and six hex digits; each channel is the
\* rounded c + (255 - c) * amount for an amount >= 0 and the rounded
\* c * (1 - |amount|) for an amount < 0 (the clamp never cuts for an amount
\* in [-1, 1]); lightening never lowers a channel, darkening never raises
\* one, and equal channels stay equal.
C8_AdjustColorFormula ==
    pc = "return" =>
        /\ Len(ret) = 7
        /\ ret[1] = "#"
        /\ \A i \in 2..7 : ret[i] \in HexDigitSet
        /\ \A k \in 1..3 :
              LET c == ChannelOf(arg.hex, k)
                  v == ChannelOf(ret, k)
              IN  /\ arg.amount >= 0 =>
                        /\ IsRounded(v, c * AmountScale + (255 - c) * arg.amount)
                        /\ v >= c
                  /\ arg.amount < 0 =>
                        /\ IsRounded(v, c * (AmountScale + arg.amount))
                        /\ v <= c
        /\ \A k, l \in 1..3 :
              ChannelOf(arg.hex, k) = ChannelOf(arg.hex, l)
                  => ChannelOf(ret, k) = ChannelOf(ret, l)

\* A tie (70.5) rounded up, a darkened channel, and #000000 lightened by 0.5
\* to #808080 have all been computed.
C8_Witness ==
    /\ pc = "return"
    /\ arg.hex = <<"#", "1", "e", "0", "0", "f", "f">>
    /\ arg.amount = LIGHTEN_STRENGTH
    /\ ret = <<"#", "4", "7", "2", "e", "f", "f">>

----------------------------------------------------------------------------
(* minifyCSS: src/scripts/build.js lines 268-275.                          *)

\* The tokens \s matches, among those of the texts modelled.
Whitespace == {" ", "\n"}

\* The class [{}:;,] of the second replacement.
Punctuation == {"{", "}", ":", ";", ","}

\* The first index >= i of t that holds no whitespace (Len(t) + 1 if none).
RECURSIVE SkipSpace(_, _)
SkipSpace(t, i) ==
    IF i <= Len(t) /\ t[i] \in Whitespace THEN SkipSpace(t, i + 1) ELSE i

\* Where the comment opened at i ("/" "*") closes: the first j >= i + 2 with
\* t[j] = "*" and t[j + 1] = "/", which is where
\* /\/\*[^*]*\*+([^/*][^*]*\*+)*\// ends its match; 0 when it never closes.
CommentEnd(t, i) ==
    LET ends == {j \in (i + 2)..(Len(t) - 1) : t[j] = "*" /\ t[j + 1] = "/"}
    IN  IF ends = {} THEN 0 ELSE (CHOOSE j \in ends : \A k \in ends : j <= k) + 1

\* .replace(/\/\*[^*]*\*+([^/*][^*]*\*+)*\//g, '')
RECURSIVE stripComments(_, _)
stripComments(t, i) ==
    IF i > Len(t) THEN <<>>
    ELSE IF /\ t[i] = "/"
            /\ i < Len(t)
            /\ t[i + 1] = "*"
            /\ CommentEnd(t, i) # 0
         THEN stripComments(t, CommentEnd(t, i) + 1)
         ELSE <<t[i]>> \o stripComments(t, i + 1)

\* .replace(/\s*([{}:;,])\s*/g, '$1')
RECURSIVE tightenPunctuation(_, _)
tightenPunctuation(t, i) ==
    IF i > Len(t) THEN <<>>
    ELSE LET k == SkipSpace(t, i)
         IN  IF k <= Len(t) /\ t[k] \in Punctuation
             THEN <<t[k]>> \o tightenPunctuation(t, SkipSpace(t, k + 1))
             ELSE <<t[i]>> \o tightenPunctuation(t, i + 1)

\* .replace(/;}/g, '}')
RECURSIVE dropLastSemicolon(_, _)
dropLastSemicolon(t, i) ==
    IF i > Len(t) THEN <<>>
    ELSE IF t[i] = ";" /\ i < Len(t) /\ t[i + 1] = "}"
         THEN <<"}">> \o dropLastSemicolon(t, i + 2)
         ELSE <<t[i]>> \o dropLastSemicolon(t, i + 1)

\* .replace(/\s+/g, ' ')
RECURSIVE collapseSpace(_, _)
collapseSpace(t, i) ==
    IF i > Len(t) THEN <<>>
    ELSE IF t[i] \in Whitespace
         THEN <<" ">> \o collapseSpace(t, SkipSpace(t, i))
         ELSE <<t[i]>> \o collapseSpace(t, i + 1)

\* .trim()
trim(t) ==
    LET inked == {i \in 1..Len(t) : t[i] \notin Whitespace}
    IN  IF inked = {} THEN <<>>
        ELSE SubSeq(t, CHOOSE i \in inked : \A j \in inked : i <= j,
                       CHOOSE i \in inked : \A j \in inked : i >= j)

minifyCSS(cssText) ==
    trim(collapseSpace(dropLastSemicolon(tightenPunctuation(
        stripComments(cssText, 1), 1), 1), 1))

(* The check of minifyCSS: every text of at most MaxTextLen tokens over    *)
(* the two kinds of whitespace, the comment delimiters, the punctuation    *)
(* and a word; the text is minified, and the result minified again.        *)

MaxTextLen == 4

MinifyAlphabet == {" ", "\n", "/", "*", "{", "}", ":", ";", ",", "a"}

InitMinify ==
    /\ BuildIdle
    /\ pc = "call"
    /\ arg \in SeqsUpTo(MinifyAlphabet, MaxTextLen)
    /\ ret = NoValue

CallMinify ==
    /\ pc = "call"
    /\ ret' = minifyCSS(arg)
    /\ pc' = "return"
    /\ UNCHANGED <<arg, buildVars>>

\* The minified text is minified again.
CallMinifyAgain ==
    /\ pc = "return"
    /\ arg' = ret
    /\ ret' = minifyCSS(ret)
    /\ pc' = "again"
    /\ UNCHANGED buildVars

NextMinify == CallMinify \/ CallMinifyAgain

SpecMinify == InitMinify /\ [][NextMinify]_vars

\* C3: minifyCSS is idempotent: minifying a minified text gives that text.
C3_MinifyIdempotent ==
    pc = "again" => ret = arg

\* C4: a minified text holds no two consecutive whitespace characters, no
\* line feed, and no ";" followed by "}".
C4_MinifiedShape ==
    pc \in {"return", "again"} =>
        /\ \A i \in 1..(Len(ret) - 1) :
              ~(ret[i] \in Whitespace /\ ret[i + 1] \in Whitespace)
        /\ \A i \in 1..Len(ret) : ret[i] # "\n"
        /\ \A i \in 1..(Len(ret) - 1) : ~(ret[i] = ";" /\ ret[i + 1] = "}")

----------------------------------------------------------------------------
(* applyAutoprefix: src/scripts/build.js lines 247-266.                    *)

\* The indentation '\n  ' the replacer puts between value and match.
Indent == <<"\n", " ", " ">>

\* The words that end with a property name: the name itself, or the name
\* behind a vendor prefix.  (A pattern such as /transition:/ is not
\* anchored: it matches at the end of the word '-webkit-transition'.)
VendorPrefixes == {"-webkit-", "-moz-", "-ms-", "-o-"}

WordEndsWith(w, prop) == w = prop \/ \E vp \in VendorPrefixes : w = vp \o prop

\* What precedes prop in a word that ends with it.
WordPrefix(w, prop) ==
    IF w = prop THEN "" ELSE CHOOSE vp \in VendorPrefixes : w = vp \o prop

\* The replacements, in order: pattern /prop:\s*val;/g, or /prop:/g when
\* val is "", and value, the text put before the match.
replacements == <<
    [prop |-> "display", val |-> "flex",
     value |-> <<"display", ":", " ", "-webkit-box", ";">> \o Indent
               \o <<"display", ":", " ", "-ms-flexbox", ";">> \o Indent
               \o <<"display", ":", " ", "flex", ";">>],
    [prop |-> "display", val |-> "inline-flex",
     value |-> <<"display", ":", " ", "-webkit-inline-box", ";">> \o Indent
               \o <<"display", ":", " ", "-ms-inline-flexbox", ";">> \o Indent
               \o <<"display", ":", " ", "inline-flex", ";">>],
    [prop |-> "user-select", val |-> "", value |-> <<"-webkit-user-select", ":">>],
    [prop |-> "appearance", val |-> "none",
     value |-> <<"-webkit-appearance", ":", " ", "none", ";">> \o Indent
               \o <<"appearance", ":", " ", "none", ";">>],
    [prop |-> "backdrop-filter", val |-> "", value |-> <<"-webkit-backdrop-filter", ":">>],
    [prop |-> "object-fit", val |-> "", value |-> <<"-o-object-fit", ":">>],
    [prop |-> "transition", val |-> "", value |-> <<"-webkit-transition", ":">>],
    [prop |-> "box-shadow", val |-> "", value |-> <<"-webkit-box-shadow", ":">>],
    [prop |-> "transform", val |-> "", value |-> <<"-webkit-transform", ":">>] >>

\* The index of the last token of the match of rule's pattern that starts in
\* the word t[i]; 0 when the pattern does not match there.
MatchEnd(t, i, rule) ==
    IF ~(WordEndsWith(t[i], rule.prop) /\ i < Len(t) /\ t[i + 1] = ":") THEN 0
    ELSE IF rule.val = "" THEN i + 1
    ELSE LET k == SkipSpace(t, i + 2)
         IN  IF k < Len(t) /\ t[k] = rule.val /\ t[k + 1] = ";" THEN k + 1 ELSE 0

\* prefixed.replace(pattern, (match) => `${value}\n  ${match}`) for one rule.
RECURSIVE replaceAll(_, _, _)
replaceAll(t, i, rule) ==
    IF i > Len(t) THEN <<>>
    ELSE LET e == MatchEnd(t, i, rule)
         IN  IF e = 0 THEN <<t[i]>> \o replaceAll(t, i + 1, rule)
             ELSE <<WordPrefix(t[i], rule.prop) \o Head(rule.value)>>
                  \o Tail(rule.value) \o Indent
                  \o <<rule.prop>> \o SubSeq(t, i + 1, e)
                  \o replaceAll(t, e + 1, rule)

\* replacements.forEach(...): the rules one after the other, each over the
\* whole text the rules before it left.
RECURSIVE applyRules(_, _)
applyRules(prefixed, n) ==
    IF n > Len(replacements) THEN prefixed
    ELSE applyRules(replaceAll(prefixed, 1, replacements[n]), n + 1)

applyAutoprefix(cssText) == applyRules(cssText, 1)

(* The check of applyAutoprefix: a declaration block of at most            *)
(* MaxDecls declarations, each one that a rule matches (written with and   *)
(* without the space after the colon), one no rule matches, or one whose   *)
(* property already carries a vendor prefix.                               *)

MaxDecls == 2

Decl(prop, value) == <<prop, ":", " ">> \o value \o <<";">>

PrefixDecls ==
    {Decl("display", <<"flex">>), <<"display", ":", "flex", ";">>,
     Decl("display", <<"inline-flex">>), Decl("display", <<"block">>),
     Decl("user-select", <<"none">>), Decl("appearance", <<"none">>),
     Decl("backdrop-filter", <<"blur", "(", "4px", ")">>),
     Decl("object-fit", <<"cover">>),
     Decl("transition", <<"all", " ", "200ms", " ", "ease">>),
     Decl("box-shadow", <<"none">>),
     Decl("transform", <<"none">>),
     Decl("color", <<"white">>),
     Decl("-webkit-transition", <<"none">>)}

\* The declarations, one per line.
RECURSIVE JoinDecls(_)
JoinDecls(ds) ==
    IF ds = <<>> THEN <<>>
    ELSE IF Len(ds) = 1 THEN ds[1]
    ELSE ds[1] \o <<"\n">> \o JoinDecls(Tail(ds))

InitPrefix ==
    /\ BuildIdle
    /\ pc = "call"
    /\ arg \in SeqsUpTo(PrefixDecls, MaxDecls)
    /\ ret = NoValue

CallAutoprefix ==
    /\ pc = "call"
    /\ ret' = applyAutoprefix(JoinDecls(arg))
    /\ pc' = "return"
    /\ UNCHANGED <<arg, buildVars>>

NextPrefix == CallAutoprefix

SpecPrefix == InitPrefix /\ [][NextPrefix]_vars

\* The declarations of a text: the text cut at each ";", each piece read as
\* property, ":" and value.
ParseDecls(t) ==
    LET semis == {i \in 1..Len(t) : t[i] = ";"}
        n == Cardinality(semis)
        pos[k \in 0..n] ==
            IF k = 0 THEN 0
            ELSE CHOOSE i \in semis : i > pos[k - 1] /\ \A j \in semis : j > pos[k - 1] => i <= j
        piece(k) == trim(SubSeq(t, pos[k - 1] + 1, pos[k] - 1))
        read(p) ==
            IF Len(p) >= 2 /\ p[2] = ":"
            THEN [prop |-> p[1], value |-> trim(SubSeq(p, 3, Len(p)))]
            ELSE [prop |-> "", value |-> p]
    IN  [k \in 1..n |-> read(piece(k))]

\* Whether a rule of the script matches the declaration d.
RuleMatches(d) ==
    \E n \in 1..Len(replacements) :
        /\ replacements[n].prop = d.prop
        /\ replacements[n].val = "" \/ d.value = <<replacements[n].val>>

\* e is d behind a vendor prefix: the property prefixed and the value the
\* same, or the property the same and the value prefixed.
IsPrefixedDuplicate(e, d) ==
    \/ /\ e.value = d.value
       /\ \E vp \in VendorPrefixes : e.prop = vp \o d.prop
    \/ /\ e.prop = d.prop
       /\ Len(e.value) = 1
       /\ e.value[1] \in {"-webkit-box", "-ms-flexbox", "-webkit-inline-box",
                          "-ms-inline-flexbox"}

Occurrences(ds, d) == Cardinality({i \in 1..Len(ds) : ds[i] = d})

\* C5: for every declaration a rule matches, the text applyAutoprefix
\* returns holds the declaration as often as the text it was given (the
\* original is left intact, once per match), and each time right after a
\* vendor-prefixed duplicate of it.
C5_PrefixedDuplicateBeforeOriginal ==
    pc = "return" =>
        LET inp == ParseDecls(JoinDecls(arg))
            out == ParseDecls(ret)
        IN  \A i \in 1..Len(inp) :
                RuleMatches(inp[i]) =>
                    /\ Occurrences(out, inp[i]) = Occurrences(inp, inp[i])
                    /\ \A j \in 1..Len(out) :
                          out[j] = inp[i] =>
                              j > 1 /\ IsPrefixedDuplicate(out[j - 1], inp[i])

----------------------------------------------------------------------------
(* Numbers and lengths: src/scripts/build.js lines 11-14 and 112-117.      *)

Digits == {"0", "1", "2", "3", "4", "5", "6", "7", "8", "9"}

\* [0-9.]
NumChars == Digits \cup {"."}

\* [a-z%]
UnitChars == {"a", "b", "c", "d", "e", "f", "g", "h", "i", "j", "k", "l", "m",
              "n", "o", "p", "q", "r", "s", "t", "u", "v", "w", "x", "y", "z", "%"}

\* The characters that are tokens of their own: those outside [a-zA-Z0-9_-].
NonWordChars == {".", " ", "\n", "{", "}", ":", ";", ",", "(", ")", "%", "#",
                 "\\", "/", "*", "@", "+"}

\* The strings of a sequence, joined into one.
RECURSIVE Concat(_)
Concat(ps) == IF ps = <<>> THEN "" ELSE Head(ps) \o Concat(Tail(ps))

\* Pieces (words, or single characters) as tokens: adjacent words are one word.
RECURSIVE Tokenize(_)
Tokenize(ps) ==
    IF Len(ps) <= 1 THEN ps
    ELSE LET rest == Tokenize(Tail(ps))
         IN  IF Head(ps) \notin NonWordChars /\ Head(rest) \notin NonWordChars
             THEN <<Head(ps) \o Head(rest)>> \o Tail(rest)
             ELSE <<Head(ps)>> \o rest

\* The first index >= i of s that holds no element of S (Len(s) + 1 if none).
RECURSIVE SkipRun(_, _, _)
SkipRun(s, i, S) ==
    IF i <= Len(s) /\ s[i] \in S THEN SkipRun(s, i + 1, S) ELSE i

\* The number a run of digits writes.
RECURSIVE DigitsValue(_)
DigitsValue(ds) ==
    IF ds = <<>> THEN 0
    ELSE 10 * DigitsValue(SubSeq(ds, 1, Len(ds) - 1)) + HexVal(ds[Len(ds)])

NaN == -1

\* parseFloat of a string over [0-9.], in thousandths: the digits, and the
\* digits behind a first "."; NaN when there is no digit.  (At most three
\* digits follow the "." in the strings modelled.)
parseFloat(numText) ==
    LET dot == SkipRun(numText, 1, Digits)
        whole == SubSeq(numText, 1, dot - 1)
        fracEnd == IF dot <= Len(numText) THEN SkipRun(numText, dot + 1, Digits) ELSE dot
        frac == SubSeq(numText, dot + 1, fracEnd - 1)
        padded == frac \o [k \in 1..(3 - Len(frac)) |-> "0"]
    IN  IF whole = <<>> /\ frac = <<>> THEN NaN
        ELSE DigitsValue(whole) * 1000 + DigitsValue(padded)

\* parseUnit(value): the first match of /([0-9.]+)([a-z%]+)/ in the string,
\* a run of [0-9.] that a character of [a-z%] follows.
parseUnit(value) ==
    LET starts == {i \in 1..Len(value) :
                      /\ value[i] \in NumChars
                      /\ SkipRun(value, i, NumChars) <= Len(value)
                      /\ value[SkipRun(value, i, NumChars)] \in UnitChars}
    IN  IF starts = {} THEN [number |-> 0, unit |-> <<"p", "x">>]
        ELSE LET i == CHOOSE k \in starts : \A j \in starts : k <= j
                 u == SkipRun(value, i, NumChars)
             IN  [number |-> parseFloat(SubSeq(value, i, u - 1)),
                  unit |-> SubSeq(value, u, SkipRun(value, u, UnitChars) - 1)]

\* A number of thousandths as JavaScript prints it: 4, 0.375, 2.5.
NumberText(r) ==
    LET whole == r \div 1000
        frac == r % 1000
        d3 == <<ToString(frac \div 100), ToString((frac \div 10) % 10), ToString(frac % 10)>>
        last == CHOOSE k \in 1..3 : d3[k] # "0" /\ \A j \in (k + 1)..3 : d3[j] = "0"
    IN  IF r = NaN THEN <<"NaN">>
        ELSE IF frac = 0 THEN <<ToString(whole)>>
        ELSE <<ToString(whole), ".">> \o SubSeq(d3, 1, last)

\* A mutant of spacingValue: a zero length written without its unit.
spacingValueBareZero(baseUnit, multiplier) ==
    LET parsed == parseUnit(baseUnit)
        raw == parsed.number * multiplier
    IN  IF raw = 0 THEN <<"0">>
        ELSE NumberText((raw + 50) \div 100) \o parsed.unit

\* spacingValue(baseUnit, multiplier), the multiplier in hundredths: the
\* pieces of `${trimmed}${unit}`.
spacingValue(baseUnit, multiplier) ==
    LET parsed == parseUnit(baseUnit)
        raw == parsed.number * multiplier       \* in 1/100000
        trimmed == IF parsed.number = NaN THEN NaN
                   ELSE IF raw % 100000 = 0 THEN (raw \div 100000) * 1000
                   ELSE (raw + 50) \div 100     \* raw.toFixed(3)
    IN  NumberText(trimmed) \o parsed.unit

DefaultBaseUnit == <<"1", "6", "p", "x">>

\* spacing?.baseUnit || '16px'
baseUnitOrDefault(spacing) ==
    IF spacing.baseUnit = <<>> THEN DefaultBaseUnit ELSE spacing.baseUnit

----------------------------------------------------------------------------
(* The generators: src/scripts/build.js lines 42-245.                      *)
(*                                                                         *)
(* A generator returns the rules it writes, in the order it writes them.   *)
(* A rule is [block, scope, media, sel, body]: the generator (or branch)   *)
(* that wrote it, the breakpoint prefix of its class ("" without one), the *)
(* condition of the media query around it (<<>> without one), the tokens   *)
(* of its selector and its declarations, each the tokens of                *)
(* 'property: value;'.  A comment is a rule of block "comment" whose sel   *)
(* holds the text.                                                         *)

Rule(block, scope, media, sel, body) ==
    [block |-> block, scope |-> scope, media |-> media, sel |-> sel, body |-> body]

\* Words with one space between them.

\* var(--color-${name})
ColorVar(name) == <<"var", "(", "--color-" \o name, ")">>

ClassSel(className) == <<".", className>>

\* .${prefix}\:${className}
PrefixedClassSel(prefix, className) == <<".", prefix, "\\", ":", className>>

\* (min-width: ${size})
MinWidth(size) == <<"min-width", ":", " ", size>>

Ink == <<"#", "0f172a">>

generateColorPalette(colors, darkMode) ==
    LET light(c) == adjustColor(c.value, LIGHTEN_STRENGTH)
        dark(c) == adjustColor(c.value, -DARKEN_STRENGTH)
        base == Rule("palette", "", <<>>, <<":", "root">>,
                    Flatten([i \in 1..Len(colors) |->
                        <<Decl("--color-" \o colors[i].name, Tokenize(colors[i].value)),
                          Decl("--color-" \o colors[i].name \o "-light", Tokenize(light(colors[i]))),
                          Decl("--color-" \o colors[i].name \o "-dark", Tokenize(dark(colors[i])))>>]))
        tones(name) ==
            <<Rule("palette", "", <<>>, ClassSel("text-" \o name),
                   <<Decl("color", ColorVar(name))>>),
              Rule("palette", "", <<>>, ClassSel("text-" \o name \o "-light"),
                   <<Decl("color", ColorVar(name \o "-light"))>>),
              Rule("palette", "", <<>>, ClassSel("text-" \o name \o "-dark"),
                   <<Decl("color", ColorVar(name \o "-dark"))>>),
              Rule("palette", "", <<>>, ClassSel("bg-" \o name),
                   <<Decl("background-color", ColorVar(name)), Decl("color", Ink)>>),
              Rule("palette", "", <<>>, ClassSel("bg-" \o name \o "-light"),
                   <<Decl("background-color", ColorVar(name \o "-light")), Decl("color", Ink)>>),
              Rule("palette", "", <<>>, ClassSel("bg-" \o name \o "-dark"),
                   <<Decl("background-color", ColorVar(name \o "-dark")),
                     Decl("color", <<"#", "f8fafc">>)>>),
              Rule("palette", "", <<>>, ClassSel("border-" \o name),
                   <<Decl("border-color", ColorVar(name))>>)>>
        utilities == Flatten([i \in 1..Len(colors) |-> tones(colors[i].name)])
        darker(c) == adjustColor(c.value, -((DARKEN_STRENGTH * 12) \div 10))
        lifted(c) == adjustColor(c.value, (LIGHTEN_STRENGTH * 8) \div 10)
        scheme == <<"prefers-color-scheme", ":", " ", "dark">>
        darkRoot ==
            IF darkMode
            THEN <<Rule("palette", "", scheme, <<":", "root">>,
                        Flatten([i \in 1..Len(colors) |->
                            <<Decl("--color-" \o colors[i].name, Tokenize(darker(colors[i]))),
                              Decl("--color-" \o colors[i].name \o "-light",
                                   Tokenize(lifted(colors[i]))),
                              Decl("--color-" \o colors[i].name \o "-dark",
                                   Tokenize(adjustColor(darker(colors[i]), -80)))>>])),
                   Rule("palette", "", scheme, <<"body">>,
                        <<Decl("background-color", Ink),
                          Decl("color", <<"#", "e2e8f0">>)>>)>>
            ELSE <<>>
    IN  <<base>> \o utilities \o darkRoot

\* spacing.ratioLineHeight is held in hundredths; 1.4 when absent (0).
generateTypography(theme) ==
    LET ratio == IF theme.spacing.ratioLineHeight = 0 THEN 140
                 ELSE theme.spacing.ratioLineHeight
        lineHeightPercent == ratio          \* parseFloat(ratio) * 100
    IN  <<Rule("typography", "", <<>>, <<"body">>,
               <<Decl("font-family", theme.typography.main),
                 Decl("line-height", <<ToString(lineHeightPercent), "%">>),
                 Decl("color", Ink)>>),
          Rule("typography", "", <<>>,
               <<"h1", ",", " ", "h2", ",", " ", "h3", ",", " ", "h4", ",", " ",
                 "h5", ",", " ", "h6">>,
               <<Decl("font-family", theme.typography.headlines),
                 Decl("line-height", <<"120", "%">>),
                 Decl("margin-bottom", <<"0", ".", "5em">>)>>)>>

\* ((i / cols) * 100).toFixed(4), then '%'
Percentage(i, cols) ==
    LET p == (2 * i * 1000000 + cols) \div (2 * cols)     \* in ten-thousandths
        frac == p % 10000
    IN  <<ToString(p \div 10000), ".",
          ToString(frac \div 1000) \o ToString((frac \div 100) % 10)
              \o ToString((frac \div 10) % 10) \o ToString(frac % 10),
          "%">>

ColumnBody(i, cols) ==
    <<Decl("flex", <<"0", " ", "0", " ">> \o Percentage(i, cols)),
      Decl("max-width", Percentage(i, cols))>>

generateLayout(theme) ==
    LET layout == theme.layout
        base == parseUnit(baseUnitOrDefault(theme.spacing))
        gutter == Tokenize(NumberText(base.number) \o base.unit)
        head == <<Rule("layout", "", <<>>, ClassSel("container"),
                       <<Decl("max-width", <<layout.container>>),
                         Decl("margin", <<"0", " ", "auto">>),
                         Decl("padding", <<"0", " ">> \o gutter)>>),
                  Rule("layout", "", <<>>, ClassSel("row"),
                       <<Decl("display", <<"flex">>),
                         Decl("flex-wrap", <<"wrap">>),
                         Decl("gap", gutter)>>)>>
        columns == [i \in 1..layout.cols |->
                       Rule("layout", "", <<>>, ClassSel("col-" \o ToString(i)),
                            ColumnBody(i, layout.cols))]
        responsive(bp) == [i \in 1..layout.cols |->
                       Rule("layout", bp.prefix, MinWidth(bp.size),
                            PrefixedClassSel(bp.prefix, "col-" \o ToString(i)),
                            ColumnBody(i, layout.cols))]
    IN  head \o columns
        \o Flatten([b \in 1..Len(layout.breakpoints) |-> responsive(layout.breakpoints[b])])

\* The multipliers of the spacing scale, in hundredths.
scale == <<0, 25, 50, 75, 100, 150, 200, 300>>

properties == <<[key |-> "m", label |-> "margin"], [key |-> "p", label |-> "padding"]>>

directions == <<
    [suffix |-> "", props |-> <<"">>],
    [suffix |-> "t", props |-> <<"-top">>],
    [suffix |-> "b", props |-> <<"-bottom">>],
    [suffix |-> "l", props |-> <<"-left">>],
    [suffix |-> "r", props |-> <<"-right">>],
    [suffix |-> "x", props |-> <<"-left", "-right">>],
    [suffix |-> "y", props |-> <<"-top", "-bottom">>] >>

\* `${property.key}${direction.suffix ? `-${direction.suffix}` : ''}-${index}`
SpacingClassName(property, direction, index) ==
    property.key \o (IF direction.suffix # "" THEN "-" \o direction.suffix ELSE "")
        \o "-" \o ToString(index)

generateSpacingUtilities(theme) ==
    LET baseUnit == baseUnitOrDefault(theme.spacing)
        breakpoints == theme.layout.breakpoints
        step(property, direction, k) ==
            LET value == spacingValue(baseUnit, scale[k])
                className == SpacingClassName(property, direction, k - 1)
                rules == [d \in 1..Len(direction.props) |->
                             Decl(property.label \o direction.props[d], Tokenize(value))]
            IN  <<Rule("spacing", "", <<>>, ClassSel(className), rules)>>
                \o [b \in 1..Len(breakpoints) |->
                       Rule("spacing", breakpoints[b].prefix, MinWidth(breakpoints[b].size),
                            PrefixedClassSel(breakpoints[b].prefix, className), rules)]
    IN  Flatten([p \in 1..Len(properties) |->
            Flatten([d \in 1..Len(directions) |->
                Flatten([k \in 1..Len(scale) |-> step(properties[p], directions[d], k)])])])

definitions == <<
    [className |-> "flex", rules |-> Decl("display", <<"flex">>)],
    [className |-> "inline-flex", rules |-> Decl("display", <<"inline-flex">>)],
    [className |-> "flex-col", rules |-> Decl("flex-direction", <<"column">>)],
    [className |-> "flex-row", rules |-> Decl("flex-direction", <<"row">>)],
    [className |-> "flex-wrap", rules |-> Decl("flex-wrap", <<"wrap">>)],
    [className |-> "items-center", rules |-> Decl("align-items", <<"center">>)],
    [className |-> "items-start", rules |-> Decl("align-items", <<"flex-start">>)],
    [className |-> "items-end", rules |-> Decl("align-items", <<"flex-end">>)],
    [className |-> "justify-center", rules |-> Decl("justify-content", <<"center">>)],
    [className |-> "justify-between", rules |-> Decl("justify-content", <<"space-between">>)],
    [className |-> "justify-around", rules |-> Decl("justify-content", <<"space-around">>)],
    [className |-> "grow", rules |-> Decl("flex", <<"1", " ", "1", " ", "0", "%">>)],
    [className |-> "shrink", rules |-> Decl("flex", <<"0", " ", "1", " ", "auto">>)] >>

generateFlexUtilities(layout) ==
    [k \in 1..Len(definitions) |->
        Rule("flex", "", <<>>, ClassSel(definitions[k].className), <<definitions[k].rules>>)]
    \o Flatten([b \in 1..Len(layout.breakpoints) |->
          [k \in 1..Len(definitions) |->
              Rule("flex", layout.breakpoints[b].prefix, MinWidth(layout.breakpoints[b].size),
                   PrefixedClassSel(layout.breakpoints[b].prefix, definitions[k].className),
                   <<definitions[k].rules>>)]])

generateImageUtilities ==
    <<Rule("image", "", <<>>, ClassSel("img-responsive"),
           <<Decl("display", <<"block">>), Decl("width", <<"100", "%">>),
             Decl("height", <<"auto">>)>>),
      Rule("image", "", <<>>, ClassSel("img-cover"),
           <<Decl("width", <<"100", "%">>), Decl("height", <<"100", "%">>),
             Decl("object-fit", <<"cover">>)>>),
      Rule("image", "", <<>>, ClassSel("img-contain"),
           <<Decl("width", <<"100", "%">>), Decl("height", <<"100", "%">>),
             Decl("object-fit", <<"contain">>)>>)>>

generateTransitionUtility(theme) ==
    <<Rule("transition", "", <<>>, ClassSel("transition"),
           <<Decl("transition",
                  <<"all", " ", theme.transition.duration, " ", theme.transition.type>>)>>)>>

\* components.includes(name), utilities.includes(name)
includes(list, name) == \E i \in 1..Len(list) : list[i] = name

\* translateY(${offset})
TranslateY(offset) == <<"translateY", "(", offset, ")">>

\* rgba(15, 23, 42, 0.${alpha})
Shadow(alpha) ==
    <<"rgba", "(", "15", ",", " ", "23", ",", " ", "42", ",", " ", "0", ".", alpha, ")">>

\* The rules of the button, the card and the alert.
ButtonRules(theme, basePadding) ==
    LET t == theme.transition
        unit == theme.spacing.baseUnit
    IN  <<Rule("button", "", <<>>, ClassSel("btn"),
               <<Decl("display", <<"inline-flex">>),
                 Decl("align-items", <<"center">>),
                 Decl("justify-content", <<"center">>),
                 Decl("gap", Tokenize(spacingValue(unit, 50))),
                 Decl("padding", basePadding \o <<" ">> \o Tokenize(spacingValue(unit, 125))),
                 Decl("border-radius", <<"9999px">>),
                 Decl("border", <<"1px", " ", "solid", " ">> \o ColorVar("primary")),
                 Decl("background", ColorVar("primary")),
                 Decl("color", <<"white">>),
                 Decl("font-weight", <<"600">>),
                 Decl("cursor", <<"pointer">>),
                 Decl("text-decoration", <<"none">>),
                 Decl("transition",
                      <<"background-color", " ", t.duration, " ", t.type, ",", " ",
                        "transform", " ", t.duration, " ", t.type>>)>>),
          Rule("button", "", <<>>, <<".", "btn", ":", "hover">>,
               <<Decl("transform", TranslateY("-1px")),
                 Decl("background", ColorVar("primary-dark"))>>),
          Rule("button", "", <<>>, <<".", "btn", ":", "active">>,
               <<Decl("transform", TranslateY("0"))>>),
          Rule("button", "", <<>>, ClassSel("btn-secondary"),
               <<Decl("background", <<"white">>),
                 Decl("color", ColorVar("primary")),
                 Decl("border-color", ColorVar("primary"))>>),
          Rule("button", "", <<>>, <<".", "btn-secondary", ":", "hover">>,
               <<Decl("background", ColorVar("primary-light")),
                 Decl("color", Ink)>>)>>

CardRules(theme, baseMargin) ==
    LET t == theme.transition
        unit == theme.spacing.baseUnit
    IN  <<Rule("card", "", <<>>, ClassSel("card"),
               <<Decl("background", <<"white">>),
                 Decl("border", <<"1px", " ", "solid", " ", "#", "e5e7eb">>),
                 Decl("border-radius", <<"12px">>),
                 Decl("padding", Tokenize(spacingValue(unit, 150))),
                 Decl("box-shadow", <<"0", " ", "10px", " ", "30px", " ">> \o Shadow("08")),
                 Decl("transition",
                      <<"box-shadow", " ", t.duration, " ", t.type, ",", " ",
                        "transform", " ", t.duration, " ", t.type>>)>>),
          Rule("card", "", <<>>, <<".", "card", ":", "hover">>,
               <<Decl("box-shadow", <<"0", " ", "15px", " ", "40px", " ">> \o Shadow("12")),
                 Decl("transform", TranslateY("-2px"))>>),
          Rule("card", "", <<>>, <<".", "card", " ", "+", " ", ".", "card">>,
               <<Decl("margin-top", baseMargin)>>)>>

tones == <<"primary", "success", "warning", "danger">>

AlertRules(theme, basePadding) ==
    <<Rule("alert", "", <<>>, ClassSel("alert"),
           <<Decl("padding", basePadding),
             Decl("border-radius", <<"12px">>),
             Decl("border", <<"1px", " ", "solid", " ", "transparent">>),
             Decl("display", <<"flex">>),
             Decl("align-items", <<"center">>),
             Decl("gap", Tokenize(spacingValue(theme.spacing.baseUnit, 50))),
             Decl("font-weight", <<"600">>)>>)>>
    \o [k \in 1..Len(tones) |->
           Rule("alert", "", <<>>, ClassSel("alert-" \o tones[k]),
                <<Decl("background", ColorVar(tones[k] \o "-light")),
                  Decl("border-color", ColorVar(tones[k])),
                  Decl("color", Ink)>>)]

\* A mutant of generateComponents: the blocks in the order of the list.
generateComponentsInListOrder(components, theme) ==
    LET basePadding == Tokenize(spacingValue(theme.spacing.baseUnit, 75))
        baseMargin == Tokenize(spacingValue(theme.spacing.baseUnit, 50))
        first(name) == \A j \in 1..Len(components) :
                          components[j] = name => \A i \in 1..(j - 1) : components[i] # name
        block(k) ==
            IF components[k] = "button" /\ first("button") THEN ButtonRules(theme, basePadding)
            ELSE IF components[k] = "card" /\ first("card") THEN CardRules(theme, baseMargin)
            ELSE IF components[k] = "alert" /\ first("alert") THEN AlertRules(theme, basePadding)
            ELSE <<>>
    IN  Flatten([k \in 1..Len(components) |-> block(k)])

generateComponents(components, theme) ==
    LET basePadding == Tokenize(spacingValue(theme.spacing.baseUnit, 75))
        baseMargin == Tokenize(spacingValue(theme.spacing.baseUnit, 50))
    IN  (IF includes(components, "button") THEN ButtonRules(theme, basePadding) ELSE <<>>)
        \o (IF includes(components, "card") THEN CardRules(theme, baseMargin) ELSE <<>>)
        \o (IF includes(components, "alert") THEN AlertRules(theme, basePadding) ELSE <<>>)

generateUtilityCss(cfg) ==
    LET utilities == cfg.utilities
        theme == cfg.theme
    IN  (IF includes(utilities, "spacing") THEN generateSpacingUtilities(theme) ELSE <<>>)
        \o (IF includes(utilities, "flex") THEN generateFlexUtilities(theme.layout) ELSE <<>>)
        \o (IF includes(utilities, "color")
            THEN [i \in 1..Len(theme.colors) |->
                     Rule("color", "", <<>>, ClassSel(theme.colors[i].name \o "-border"),
                          <<Decl("border-color", ColorVar(theme.colors[i].name))>>)]
            ELSE <<>>)
        \o (IF includes(utilities, "image") THEN generateImageUtilities ELSE <<>>)
        \o generateTransitionUtility(theme)

Comment(text) == Rule("comment", "", <<>>, <<"/", "*">> \o text \o <<"*", "/">>, <<>>)

\* The stylesheet build() puts together (lines 292-297).
Stylesheet(cfg) ==
    <<Comment(<<"\n", " ", " ", "Plugo", " ", "CSS", " ", "Framework", "\n", " ", " ",
                "Generated", " ", "automatically", " ", "from", " ",
                "plugo", ".", "config", ".", "js", "\n">>)>>
    \o generateColorPalette(cfg.theme.colors, cfg.darkMode)
    \o generateTypography(cfg.theme)
    \o generateLayout(cfg.theme)
    \o generateComponents(cfg.components, cfg.theme)
    \o <<Comment(<<" ", "Utilities", " ">>)>>
    \o generateUtilityCss(cfg)

----------------------------------------------------------------------------
(* The text of the stylesheet, and countClasses: lines 277-280.            *)

\* The declarations of a rule with one space between them.
RECURSIVE JoinBody(_)
JoinBody(body) ==
    IF body = <<>> THEN <<>>
    ELSE IF Len(body) = 1 THEN body[1]
    ELSE body[1] \o <<" ">> \o JoinBody(Tail(body))

\* The text of a rule, on one line.
Render(rule) ==
    LET block == rule.sel \o <<" ", "{", " ">> \o JoinBody(rule.body) \o <<" ", "}">>
    IN  IF rule.block = "comment" THEN rule.sel \o <<"\n">>
        ELSE IF rule.media = <<>> THEN block \o <<"\n">>
        ELSE <<"@", "media", " ", "(">> \o rule.media \o <<")", " ", "{", " ">>
             \o block \o <<" ", "}", "\n">>

RenderSheet(rules) == Flatten([i \in 1..Len(rules) |-> Render(rules[i])])

\* applyAutoprefix over the stylesheet.  No pattern of it holds "{" or "}"
\* and a match never passes a ";", so the text is rewritten selector by
\* selector and declaration by declaration.
PrefixedSheet(rules) ==
    [i \in 1..Len(rules) |->
        [rules[i] EXCEPT !.sel = applyAutoprefix(rules[i].sel),
                         !.body = [k \in 1..Len(rules[i].body) |->
                                      applyAutoprefix(rules[i].body[k])]]]

\* countClasses(css): the number of distinct matches of /\.[a-zA-Z0-9_-]+/g,
\* a "." and the word right after it.
countClasses(cssText) ==
    Cardinality({"." \o cssText[i + 1] :
                    i \in {j \in 1..(Len(cssText) - 1) :
                              cssText[j] = "." /\ cssText[j + 1] \notin NonWordChars}})

----------------------------------------------------------------------------
(* build(): src/scripts/build.js lines 282-320.                            *)

MaxComponents == 3

MaxUtilities == 2

MaxColors == 2

MaxBreakpoints == 2

\* All sequences over S of length at most n that repeat no element.
ListsOf(S, n) ==
    {l \in SeqsUpTo(S, n) : \A i, j \in 1..Len(l) : i # j => l[i] # l[j]}

ComponentNames == {"button", "card", "alert", "modal"}

UtilityNames == {"spacing", "flex", "color", "image", "grid"}

ColorChoices ==
    {[name |-> "primary", value |-> <<"#", "3", "b", "8", "2", "f", "6">>],
     [name |-> "primary-light", value |-> <<"#", "9", "3", "c", "5", "f", "d">>],
     [name |-> "success", value |-> <<"#", "2", "2", "c", "5", "5", "e">>],
     [name |-> "border", value |-> <<"#", "e", "5", "e", "7", "e", "b">>]}

BreakpointChoices ==
    {[prefix |-> "sm", size |-> "640px"], [prefix |-> "md", size |-> "768px"],
     [prefix |-> "lg", size |-> "1024px"]}

\* '16px', '1.5rem', '0.5em', '10' (no unit), and no base unit at all.
BaseUnitChoices ==
    {DefaultBaseUnit, <<"1", ".", "5", "r", "e", "m">>, <<"0", ".", "5", "e", "m">>,
     <<"1", "0">>, <<>>}

BaseTheme ==
    [colors |-> <<[name |-> "primary", value |-> <<"#", "3", "b", "8", "2", "f", "6">>]>>,
     typography |-> [main |-> <<"Inter", ",", " ", "sans-serif">>,
                     headlines |-> <<"Poppins", ",", " ", "sans-serif">>],
     layout |-> [container |-> "1200px", cols |-> 12,
                 breakpoints |-> <<[prefix |-> "sm", size |-> "640px"]>>],
     spacing |-> [baseUnit |-> DefaultBaseUnit, ratioLineHeight |-> 150],
     transition |-> [duration |-> "200ms", type |-> "ease"]]

BaseConfig ==
    [kind |-> "theme", theme |-> BaseTheme, darkMode |-> TRUE,
     components |-> <<"button">>, utilities |-> <<"flex">>]

\* The module exports neither default nor config: loadConfig() returns {}.
EmptyConfig == [kind |-> "empty"]

\* The configs a build may load: the base config with its components, its
\* utilities, its colours, or its breakpoints and base unit replaced.
Configs ==
    {[BaseConfig EXCEPT !.components = c] : c \in SeqsUpTo(ComponentNames, MaxComponents)}
    \cup {[BaseConfig EXCEPT !.utilities = u] : u \in SeqsUpTo(UtilityNames, MaxUtilities)}
    \cup {[BaseConfig EXCEPT !.theme.colors = cs, !.utilities = u, !.darkMode = d] :
             cs \in ListsOf(ColorChoices, MaxColors),
             u \in {<<"flex">>, <<"color">>}, d \in BOOLEAN}
    \cup {[BaseConfig EXCEPT !.theme.layout.breakpoints = bs,
                             !.theme.spacing.baseUnit = x,
                             !.utilities = <<"spacing">>] :
             bs \in ListsOf(BreakpointChoices, MaxBreakpoints), x \in BaseUnitChoices}

CatchPcs == {"catch:config", "catch:generate", "catch:writeCss", "catch:writeMin"}

Init ==
    /\ pc = "start"
    /\ config = NoConfig
    /\ css = <<>>
    /\ cssFile = NoValue
    /\ minFile = NoValue
    /\ report = NoReport
    /\ logged = <<>>
    /\ exitCode = <<>>
    /\ arg = NoValue
    /\ ret = NoValue

\* const config = await loadConfig(): the import rejects, or gives a config.
BuildLoadConfig ==
    /\ pc = "start"
    /\ \/ /\ config' \in Configs \cup {EmptyConfig}
          /\ pc' = "generate"
       \/ /\ pc' = "catch:config"
          /\ UNCHANGED config
    /\ UNCHANGED <<css, cssFile, minFile, report, logged, exitCode, arg, ret>>

\* Lines 290-300: the stylesheet, prefixed and minified.  Reading
\* theme.colors of the empty config throws.
BuildGenerate ==
    /\ pc = "generate"
    /\ IF config.kind = "empty"
       THEN pc' = "catch:generate" /\ UNCHANGED css
       ELSE css' = Stylesheet(config) /\ pc' = "writeCss"
    /\ UNCHANGED <<config, cssFile, minFile, report, logged, exitCode, arg, ret>>

\* await fs.writeFile(cssPath, prefixed, 'utf8'): a write that fails may
\* leave a part of the file.
BuildWriteCss ==
    /\ pc = "writeCss"
    /\ \/ cssFile' = "prefixed" /\ pc' = "writeMin"
       \/ cssFile' \in {cssFile, "partial"} /\ pc' = "catch:writeCss"
    /\ UNCHANGED <<config, css, minFile, report, logged, exitCode, arg, ret>>

\* await fs.writeFile(minPath, minified, 'utf8')
BuildWriteMin ==
    /\ pc = "writeMin"
    /\ \/ minFile' = "minified" /\ pc' = "report"
       \/ minFile' \in {minFile, "partial"} /\ pc' = "catch:writeMin"
    /\ UNCHANGED <<config, css, cssFile, report, logged, exitCode, arg, ret>>

\* Lines 307-314: the report, the completion message and the table.
BuildReport ==
    /\ pc = "report"
    /\ report' = [kind |-> "report",
                  classes |-> countClasses(RenderSheet(PrefixedSheet(css)))]
    /\ logged' = logged \o <<"Plugo build complete", "table">>
    /\ pc' = "end"
    /\ UNCHANGED <<config, css, cssFile, minFile, exitCode, arg, ret>>

\* build() resolved: the process ends with code 0.
BuildEnd ==
    /\ pc = "end"
    /\ exitCode' = <<0>>
    /\ pc' = "exited"
    /\ UNCHANGED <<config, css, cssFile, minFile, report, logged, arg, ret>>

\* A mutant of BuildCatch: the error is logged and process.exit(1) is left out.
BuildCatchNoExit ==
    /\ pc \in CatchPcs
    /\ logged' = Append(logged, "error:" \o pc)
    /\ exitCode' = <<0>>
    /\ pc' = "exited"
    /\ UNCHANGED <<config, css, cssFile, minFile, report, arg, ret>>

\* build().catch(...): console.error, then process.exit(1).
BuildCatch ==
    /\ pc \in CatchPcs
    /\ logged' = Append(logged, "error:" \o pc)
    /\ exitCode' = <<1>>
    /\ pc' = "exited"
    /\ UNCHANGED <<config, css, cssFile, minFile, report, arg, ret>>

Next ==
    \/ BuildLoadConfig
    \/ BuildGenerate
    \/ BuildWriteCss
    \/ BuildWriteMin
    \/ BuildReport
    \/ BuildEnd
    \/ BuildCatch

Spec == Init /\ [][Next]_vars

----------------------------------------------------------------------------
(* The claims about build().                                               *)

\* The failure that ended the run, if one did: thrown and not yet caught, or
\* logged by the catch handler.
Failed(cause) == pc = "catch:" \o cause \/ includes(logged, "error:catch:" \o cause)

AnyFailure == \E c \in {"config", "generate", "writeCss", "writeMin"} : Failed(c)

\* C1: a failure of the config acquisition or of either write ends the run:
\* no later step has run, no completion message and no report exist, and the
\* process exits with code 1; the report exists and the exit code is 0 only
\* with the config obtained and both files written in full.
C1_FailureAbortsRun ==
    /\ AnyFailure =>
          /\ report = NoReport
          /\ ~includes(logged, "Plugo build complete")
          /\ ~includes(logged, "table")
          /\ exitCode # <<0>>
          /\ pc = "exited" => exitCode = <<1>>
    /\ Failed("config") =>
          config = NoConfig /\ css = <<>> /\ cssFile = NoValue /\ minFile = NoValue
    /\ Failed("writeCss") => cssFile # "prefixed" /\ minFile = NoValue
    /\ Failed("writeMin") => minFile # "minified"
    /\ (report # NoReport \/ exitCode = <<0>>) =>
          /\ config.kind = "theme"
          /\ cssFile = "prefixed"
          /\ minFile = "minified"
          /\ ~AnyFailure
    /\ exitCode = <<0>> => report # NoReport /\ includes(logged, "Plugo build complete")

\* The write of plugo.min.css failed after plugo.css was written, and the
\* process has exited with code 1.
C1_Witness ==
    /\ pc = "exited"
    /\ exitCode = <<1>>
    /\ Failed("writeMin")
    /\ cssFile = "prefixed"
    /\ minFile = "partial"

\* The rules of the stylesheet whose selector starts with a class.
ClassRules == {i \in 1..Len(css) : css[i].block # "comment" /\ Head(css[i].sel) = "."}

\* C6: no two rules of the generated stylesheet in the same breakpoint scope
\* carry the same class selector.
C6_SelectorsUnique ==
    Cardinality({<<css[i].scope, css[i].sel>> : i \in ClassRules}) = Cardinality(ClassRules)

\* The index of the first rule of a block (0 when the block is absent).
FirstOf(block) ==
    LET at == {i \in 1..Len(css) : css[i].block = block}
    IN  IF at = {} THEN 0 ELSE CHOOSE i \in at : \A j \in at : i <= j

\* Where name first stands in list.
FirstIn(list, name) ==
    CHOOSE i \in 1..Len(list) : list[i] = name /\ \A j \in 1..(i - 1) : list[j] # name

Recognized == {"button", "card", "alert", "spacing", "flex", "color", "image"}

\* The blocks of a list stand in the stylesheet in the order of the list.
InListOrder(list) ==
    \A a, b \in Recognized :
        (/\ includes(list, a) /\ includes(list, b)
         /\ FirstIn(list, a) < FirstIn(list, b)
         /\ FirstOf(a) # 0 /\ FirstOf(b) # 0)
            => FirstOf(a) < FirstOf(b)

\* C7 as claimed: component blocks stand in the order of config.components
\* and utility blocks in the order of config.utilities.
C7_BlocksInListOrder ==
    pc = "writeCss" => InListOrder(config.components) /\ InListOrder(config.utilities)

BlockOrder ==
    <<"comment", "palette", "typography", "layout", "button", "card", "alert",
      "comment", "spacing", "flex", "color", "image", "transition">>

\* The place of a block in the fixed order, the first comment apart.
Rank(i) ==
    IF i = 1 THEN 1 ELSE CHOOSE k \in 2..Len(BlockOrder) : BlockOrder[k] = css[i].block

\* C7 as amended: the blocks stand in the fixed order button, card, alert and
\* spacing, flex, color, image whatever the order of the names in the lists;
\* a block is there only if its name is in its list, every named block that
\* has rules is there, and a name outside the recognized ones adds nothing.
C7_BlocksInFixedOrder ==
    pc = "writeCss" =>
        /\ \A i \in 1..Len(css) : \E k \in 1..Len(BlockOrder) : BlockOrder[k] = css[i].block
        /\ \A i \in 1..(Len(css) - 1) : Rank(i) <= Rank(i + 1)
        /\ \A name \in {"button", "card", "alert"} :
              FirstOf(name) # 0 <=> includes(config.components, name)
        /\ \A name \in {"spacing", "flex", "image"} :
              FirstOf(name) # 0 <=> includes(config.utilities, name)
        /\ FirstOf("color") # 0 <=>
              (includes(config.utilities, "color") /\ config.theme.colors # <<>>)

\* The list names alert, an unknown component and button, in that order; the
\* stylesheet holds the button block before the alert block.
C7_Witness ==
    /\ pc = "writeCss"
    /\ config.components = <<"alert", "modal", "button">>
    /\ FirstOf("button") # 0
    /\ FirstOf("button") < FirstOf("alert")

\* The unit a base unit string carries: its letters, or px when it has none.
UnitOf(baseUnit) ==
    LET IsLetter(c) == c \in UnitChars
        letters == SelectIdx(baseUnit, IsLetter)
    IN  IF letters = <<>> THEN "px" ELSE Concat(letters)

DirectionSuffixes == <<"", "-t", "-b", "-l", "-r", "-x", "-y">>

\* The rules with a given scope and selector.
RulesOf(scope, sel) == {i \in 1..Len(css) : css[i].scope = scope /\ css[i].sel = sel}

\* C9: with the spacing utilities on, for each of margin and padding, each of
\* the seven directions and each scale index 0..7 the stylesheet holds
\* exactly one unprefixed class {m|p}[-{dir}]-{index}, and per breakpoint
\* exactly one class of the prefixed, colon-escaped name, in the min-width
\* query of the breakpoint's size and with the declarations of the unprefixed
\* class; at index 0 every declared value is 0 with the unit behind it.
C9_SpacingMatrix ==
    (pc = "writeCss" /\ includes(config.utilities, "spacing")) =>
        \A key \in {"m", "p"}, d \in 1..7, index \in 0..7 :
            LET name == key \o DirectionSuffixes[d] \o "-" \o ToString(index)
                plain == RulesOf("", <<".", name>>)
                bps == config.theme.layout.breakpoints
            IN  /\ Cardinality(plain) = 1
                /\ \A b \in 1..Len(bps) :
                      LET scoped == RulesOf(bps[b].prefix,
                                            <<".", bps[b].prefix, "\\", ":", name>>)
                      IN  /\ Cardinality(scoped) = 1
                          /\ \A i \in scoped, j \in plain :
                                /\ css[i].body = css[j].body
                                /\ css[i].media = <<"min-width", ":", " ", bps[b].size>>
                /\ index = 0 =>
                      \A j \in plain : \A k \in 1..Len(css[j].body) :
                          /\ Len(css[j].body[k]) = 5
                          /\ css[j].body[k][4] =
                                 "0" \o UnitOf(config.theme.spacing.baseUnit)
                          /\ css[j].body[k][4] # "0"

\* Two breakpoints and a base unit of 1.5rem: .md\:p-x-0 is there, in the
\* query of 768px, declaring 0rem for both sides.
C9_Witness ==
    /\ pc = "writeCss"
    /\ Len(config.theme.layout.breakpoints) = 2
    /\ \E i \in 1..Len(css) :
          /\ css[i].sel = <<".", "md", "\\", ":", "p-x-0">>
          /\ css[i].media = <<"min-width", ":", " ", "768px">>
          /\ css[i].body = <<<<"padding-left", ":", " ", "0rem", ";">>,
                             <<"padding-right", ":", " ", "0rem", ";">>>>

\* The class selectors of a selector: each "." with the name behind it, the
\* breakpoint prefix and its escaped colon included.
ClassSelectorsOf(sel) ==
    {IF i + 2 <= Len(sel) /\ sel[i + 2] = "\\" THEN SubSeq(sel, i, i + 4)
     ELSE SubSeq(sel, i, i + 1) : i \in {j \in 1..Len(sel) : sel[j] = "."}}

DistinctClassSelectors ==
    UNION {ClassSelectorsOf(css[i].sel) : i \in {j \in 1..Len(css) : css[j].block # "comment"}}

\* C10: the classes metric of the report is the number of distinct class
\* selectors of the stylesheet.
C10_ReportCountsClassSelectors ==
    report.kind = "report" => report.classes = Cardinality(DistinctClassSelectors)

=============================================================================
